---- MODULE Spec2Model ----
(***************************************************************************)
(* Model of the flintx command-line program (src/main.rs and               *)
(* src/commands/*.rs).  One process run is: print_banner, Cli::parse,      *)
(* the match in main, one stub, return.  The file system of the current    *)
(* directory persists between runs; everything else is per process.        *)
(*                                                                         *)
(* Environment assumptions: standard output is writable (println! does not *)
(* panic), and no other process touches the directory while flintx runs.   *)
(* Text styling (.cyan(), .bold(), ...) is not part of a line's content.   *)
(***************************************************************************)
EXTENDS Naturals, Sequences, FiniteSets, TLC

VARIABLES
    pc,            \* position of the process
    argv,          \* command line of the current process
    parsed,        \* value of cli.command once Cli::parse has returned
    out,           \* lines written to standard output by the current process
    err,           \* messages written to standard error by the current process
    fs,            \* the current directory: path -> entry
    calls,         \* stubs entered by the current process, <<name, argument>>
    mkdirCalls,    \* fs::create_dir_all calls made by the current process
    writeCalls,    \* fs::write calls made by the current process
    runs,          \* number of processes started so far
    startFs,       \* fs when the current process started
    initSnapshots  \* fs at the end of each successful init, oldest first

vars == <<pc, argv, parsed, out, err, fs, calls, mkdirCalls, writeCalls,
          runs, startFs, initSnapshots>>

\* Number of consecutive invocations of the program that are explored.
MaxRuns == 2

None == "none"

(***************************************************************************)
(* File system                                                             *)
(***************************************************************************)
ConfigPath == "flintx.config.json"

OutputDir == "flintx_output"

\* A path init never names; possible value of --target / --input.
OtherPath == "app.py"

Paths == {ConfigPath, OutputDir, OtherPath}

Absent == [kind |-> "absent", data |-> <<>>]

Dir == [kind |-> "dir", data |-> <<>>]

File(d) == [kind |-> "file", data |-> d]

\* Mutant of Template: the template without its ollama_model member.
TemplateWithoutModel ==
    << <<"version", "0.1.0">>,
       <<"project", "flintx-project">>,
       <<"ai_endpoint", "http://localhost:8000/analyze">>,
       <<"output_dir", "./flintx_output">> >>

\* The raw string literal `config` of init.rs: the members of the JSON
\* object in the order they are written.
Template ==
    << <<"version", "0.1.0">>,
       <<"project", "flintx-project">>,
       <<"ai_endpoint", "http://localhost:8000/analyze">>,
       <<"ollama_model", "mistral">>,
       <<"output_dir", "./flintx_output">> >>

\* Some earlier content of flintx.config.json that is not the template.
Garbage == << <<"version", "9.9.9">>, <<"extra", "x">> >>

JsonKeys(d) == {d[i][1] : i \in DOMAIN d}

JsonValues(d, k) == {d[i][2] : i \in {j \in DOMAIN d : d[j][1] = k}}

\* Mutant of CreateDirAll: std::fs::create_dir, which fails on an existing
\* directory.
CreateDir(f, path) ==
    IF f[path].kind = "absent"
    THEN {[ok |-> TRUE, fs |-> [f EXCEPT ![path] = Dir]],
          [ok |-> FALSE, fs |-> f]}
    ELSE {[ok |-> FALSE, fs |-> f]}

\* std::fs::create_dir_all(path) for a single-component relative path:
\* an existing directory is success, an existing non-directory is an error,
\* otherwise mkdir either creates the directory or fails (permissions,
\* read-only file system, ...) and then changes nothing.
CreateDirAll(f, path) ==
    CASE f[path].kind = "dir"  -> {[ok |-> TRUE, fs |-> f]}
      [] f[path].kind = "file" -> {[ok |-> FALSE, fs |-> f]}
      [] OTHER -> {[ok |-> TRUE, fs |-> [f EXCEPT ![path] = Dir]],
                   [ok |-> FALSE, fs |-> f]}

\* std::fs::write(path, data): open with create+truncate, then write_all.
\* A directory at path is an error.  Otherwise the call succeeds, or the
\* open fails (nothing changes), or the write fails after the open (the
\* file is left created/truncated).
FsWrite(f, path, d) ==
    IF f[path].kind = "dir"
    THEN {[ok |-> FALSE, fs |-> f]}
    ELSE {[ok |-> TRUE, fs |-> [f EXCEPT ![path] = File(d)]],
          [ok |-> FALSE, fs |-> f],
          [ok |-> FALSE, fs |-> [f EXCEPT ![path] = File(<<>>)]]}

(***************************************************************************)
(* Command line                                                            *)
(***************************************************************************)
SubcommandNames == {"init", "analyze", "profile", "optimize", "run"}

\* First token after the program name: a subcommand, an unknown word, or
\* the generated --help flag.
CmdTokens == SubcommandNames \cup {"bogus", "--help"}

ArgValues == {OtherPath, ConfigPath}

Argvs ==
    {[cmd |-> c, opt |-> None, val |-> None] : c \in CmdTokens}
    \cup {[cmd |-> c, opt |-> o, val |-> v] :
            c \in SubcommandNames, o \in {"--target", "--input"}, v \in ArgValues}

\* Mutant of Commands: optimize's input declared String, not Option<String>.
CommandsInputRequired ==
    [init     |-> [tag |-> "Init",     opt |-> None,       required |-> FALSE],
     analyze  |-> [tag |-> "Analyze",  opt |-> "--target", required |-> TRUE],
     profile  |-> [tag |-> "Profile",  opt |-> "--target", required |-> TRUE],
     optimize |-> [tag |-> "Optimize", opt |-> "--input",  required |-> TRUE],
     run      |-> [tag |-> "Run",      opt |-> "--target", required |-> TRUE]]

\* The option each variant of enum Commands declares, and whether it is
\* required (String) or optional (Option<String>).
Commands ==
    [init     |-> [tag |-> "Init",     opt |-> None,       required |-> FALSE],
     analyze  |-> [tag |-> "Analyze",  opt |-> "--target", required |-> TRUE],
     profile  |-> [tag |-> "Profile",  opt |-> "--target", required |-> TRUE],
     optimize |-> [tag |-> "Optimize", opt |-> "--input",  required |-> FALSE],
     run      |-> [tag |-> "Run",      opt |-> "--target", required |-> TRUE]]

ParseError == [tag |-> "Error", arg |-> None]

ParseHelp == [tag |-> "Help", arg |-> None]

\* Cli::parse() as derived from struct Cli / enum Commands.
CliParse(a) ==
    IF a.cmd = "--help" THEN ParseHelp
    ELSE IF a.cmd \notin SubcommandNames THEN ParseError
    ELSE LET c == Commands[a.cmd] IN
         IF a.opt = None
         THEN IF c.required THEN ParseError ELSE [tag |-> c.tag, arg |-> None]
         ELSE IF a.opt = c.opt THEN [tag |-> c.tag, arg |-> a.val]
         ELSE ParseError

(***************************************************************************)
(* Output lines.  A line is a tuple: its fixed text, then the interpolated *)
(* argument when it has one.                                               *)
(***************************************************************************)
BannerLines ==
    << <<"+--------------------------------------+">>,
       <<"|        Flint-X v0.1.0                |">>,
       <<"|  AI Performance Intelligence Tool    |">>,
       <<"|  AMD Hardware-Aware Optimization     |">>,
       <<"+--------------------------------------+">>,
       <<"">> >>

AnalyzeLines(target) ==
    << <<"[ ANALYZE ] Running static analysis...">>,
       <<"  Target: ", target>>,
       <<"">>,
       <<"  -> Static analysis engine not yet connected.">>,
       <<"  -> Phase 3 will wire the Python AST analyzer here.">> >>

ProfileLines(target) ==
    << <<"[ PROFILE ] Running runtime profiler...">>,
       <<"  Target: ", target>>,
       <<"">>,
       <<"  -> Runtime profiler not yet connected.">>,
       <<"  -> Phase 4 will wire cProfile + psutil here.">> >>

OptimizeLines(input) ==
    << <<"[ OPTIMIZE ] Querying AI optimization layer...">>,
       IF input # None THEN <<"  Input file: ", input>>
                       ELSE <<"  Input: ", "auto (from last run)">>,
       <<"">>,
       <<"  -> AI layer not yet connected.">>,
       <<"  -> Phase 5 will wire FastAPI + Ollama here.">> >>

\* Mutant of RunLines: run printing what the three stages print.
RunLinesPipeline(target) ==
    AnalyzeLines(target) \o ProfileLines(target) \o OptimizeLines(None)

RunLines(target) ==
    << <<"[ RUN ] Executing full Flint-X pipeline...">>,
       <<"  Target: ", target>>,
       <<"">>,
       <<"  Pipeline steps:">>,
       <<"    ", "1.", " Static Analysis">>,
       <<"    ", "2.", " Runtime Profiling">>,
       <<"    ", "3.", " AI Optimization Query">>,
       <<"">>,
       <<"  -> Full pipeline not yet connected.">>,
       <<"  -> Phase 6 will wire all stages together here.">> >>

InitHeader == << <<"[ INIT ] Initializing Flint-X project...">> >>

InitReport ==
    << <<"  ok Created flintx.config.json">>,
       <<"  ok Created flintx_output/ directory">>,
       <<"">>,
       <<"  Flint-X project ready.">>,
       <<"  Edit ", "flintx.config.json", " to configure your AI endpoint and model.">> >>

(***************************************************************************)
(* State                                                                   *)
(***************************************************************************)
Terminal == {"exit_success", "exit_usage", "exit_panic"}

ConfigEntries == {Absent, Dir, File(Template), File(Garbage), File(<<>>)}

InitialFs ==
    {f \in [Paths -> ConfigEntries] :
        /\ f[OutputDir] \in {Absent, Dir, File(<<>>)}
        /\ f[OtherPath] \in {Absent, File(<<>>)}}

\* A freshly started process: nothing printed, nothing parsed.
Init ==
    /\ pc = "main"
    /\ argv \in Argvs
    /\ parsed = [tag |-> "Unparsed", arg |-> None]
    /\ out = <<>>
    /\ err = <<>>
    /\ fs \in InitialFs
    /\ calls = <<>>
    /\ mkdirCalls = 0
    /\ writeCalls = 0
    /\ runs = 1
    /\ startFs = fs
    /\ initSnapshots = <<>>

\* The shell starts the program again in the same directory.
Invoke ==
    /\ pc \in Terminal
    /\ runs < MaxRuns
    /\ pc' = "main"
    /\ argv' \in Argvs
    /\ parsed' = [tag |-> "Unparsed", arg |-> None]
    /\ out' = <<>>
    /\ err' = <<>>
    /\ calls' = <<>>
    /\ mkdirCalls' = 0
    /\ writeCalls' = 0
    /\ runs' = runs + 1
    /\ startFs' = fs
    /\ UNCHANGED <<fs, initSnapshots>>

(***************************************************************************)
(* main                                                                    *)
(***************************************************************************)
\* main.rs: print_banner()
PrintBanner ==
    /\ pc = "main"
    /\ out' = out \o BannerLines
    /\ pc' = "parse"
    /\ UNCHANGED <<argv, parsed, err, fs, calls, mkdirCalls, writeCalls,
                   runs, startFs, initSnapshots>>

\* main.rs: let cli = Cli::parse();  exits the process itself on an error
\* (status 2, message on stderr) and on --help (status 0, help on stdout).
MainParse ==
    /\ pc = "parse"
    /\ parsed' = CliParse(argv)
    /\ CASE parsed'.tag = "Error" ->
              /\ pc' = "exit_usage"
              /\ err' = Append(err, "error: usage")
              /\ out' = out
         [] parsed'.tag = "Help" ->
              /\ pc' = "exit_success"
              /\ out' = Append(out, <<"Usage: flintx <COMMAND>">>)
              /\ err' = err
         [] OTHER ->
              /\ pc' = "dispatch"
              /\ UNCHANGED <<out, err>>
    /\ UNCHANGED <<argv, fs, calls, mkdirCalls, writeCalls, runs, startFs,
                   initSnapshots>>

\* Entering a stub: commands::<name>::execute(arg)
Call(name, arg) ==
    /\ calls' = Append(calls, <<name, arg>>)
    /\ pc' = name

\* Mutant of StubOf: the Run arm calling the analyze stub.
StubOfRunAsAnalyze(tag) ==
    CASE tag = "Init"     -> "init"
      [] tag = "Analyze"  -> "analyze"
      [] tag = "Profile"  -> "profile"
      [] tag = "Optimize" -> "optimize"
      [] tag = "Run"      -> "analyze"

\* The stub a parsed command is dispatched to (the arms of the match).
StubOf(tag) ==
    CASE tag = "Init"     -> "init"
      [] tag = "Analyze"  -> "analyze"
      [] tag = "Profile"  -> "profile"
      [] tag = "Optimize" -> "optimize"
      [] tag = "Run"      -> "run"

\* main.rs: match cli.command { ... }
MainDispatch ==
    /\ pc = "dispatch"
    /\ Call(StubOf(parsed.tag), parsed.arg)
    /\ UNCHANGED <<argv, parsed, out, err, fs, mkdirCalls, writeCalls, runs,
                   startFs, initSnapshots>>

\* The argument the running stub was called with.
Arg == calls[Len(calls)][2]

\* A stub that only prints: all its println! calls, then return to main.
PrintAndReturn(lines) ==
    /\ out' = out \o lines
    /\ pc' = "returned"
    /\ UNCHANGED <<argv, parsed, err, fs, calls, mkdirCalls, writeCalls,
                   runs, startFs, initSnapshots>>

\* Mutant of AnalyzeExecute: the stub checks that its target exists.
AnalyzeExecuteValidating ==
    /\ pc = "analyze"
    /\ IF fs[Arg].kind = "absent"
       THEN /\ pc' = "exit_panic"
            /\ err' = Append(err, "target not found")
            /\ out' = out
       ELSE /\ pc' = "returned"
            /\ err' = err
            /\ out' = out \o AnalyzeLines(Arg)
    /\ UNCHANGED <<argv, parsed, fs, calls, mkdirCalls, writeCalls, runs,
                   startFs, initSnapshots>>

\* commands/analyze.rs: execute(target)
AnalyzeExecute ==
    /\ pc = "analyze"
    /\ PrintAndReturn(AnalyzeLines(Arg))

\* Mutant of ProfileExecute: the stub leaves a report directory behind.
ProfileExecuteWritingReport ==
    /\ pc = "profile"
    /\ out' = out \o ProfileLines(Arg)
    /\ pc' = "returned"
    /\ fs' = [fs EXCEPT ![OutputDir] = Dir]
    /\ UNCHANGED <<argv, parsed, err, calls, mkdirCalls, writeCalls, runs,
                   startFs, initSnapshots>>

\* commands/profile.rs: execute(target)
ProfileExecute ==
    /\ pc = "profile"
    /\ PrintAndReturn(ProfileLines(Arg))

\* commands/optimize.rs: execute(input)
OptimizeExecute ==
    /\ pc = "optimize"
    /\ PrintAndReturn(OptimizeLines(Arg))

\* Mutant of RunExecute: the stub never returns.
RunExecuteSpin ==
    /\ pc = "run"
    /\ UNCHANGED vars

\* commands/run.rs: execute(target)
RunExecute ==
    /\ pc = "run"
    /\ PrintAndReturn(RunLines(Arg))

(***************************************************************************)
(* commands/init.rs: execute(), statement by statement                     *)
(***************************************************************************)
\* Mutant of InitPrintHeader: init going straight to the write, with no
\* create_dir_all before it.
InitPrintHeaderThenWrite ==
    /\ pc = "init"
    /\ out' = out \o InitHeader
    /\ pc' = "init_write"
    /\ UNCHANGED <<argv, parsed, err, fs, calls, mkdirCalls, writeCalls,
                   runs, startFs, initSnapshots>>

\* println!("[ INIT ] ...")
InitPrintHeader ==
    /\ pc = "init"
    /\ out' = out \o InitHeader
    /\ pc' = "init_mkdir"
    /\ UNCHANGED <<argv, parsed, err, fs, calls, mkdirCalls, writeCalls,
                   runs, startFs, initSnapshots>>

\* Mutant of InitCreateDir: the error is reported but not fatal.
InitCreateDirNotFatal ==
    /\ pc = "init_mkdir"
    /\ mkdirCalls' = mkdirCalls + 1
    /\ \E r \in CreateDirAll(fs, OutputDir) :
          /\ fs' = r.fs
          /\ pc' = "init_write"
          /\ err' = IF r.ok THEN err
                    ELSE Append(err, "Failed to create output directory")
    /\ UNCHANGED <<argv, parsed, out, calls, writeCalls, runs, startFs,
                   initSnapshots>>

\* fs::create_dir_all("flintx_output").expect("Failed to create output directory")
InitCreateDir ==
    /\ pc = "init_mkdir"
    /\ mkdirCalls' = mkdirCalls + 1
    /\ \E r \in CreateDirAll(fs, OutputDir) :
          /\ fs' = r.fs
          /\ IF r.ok
             THEN pc' = "init_write" /\ err' = err
             ELSE /\ pc' = "exit_panic"
                  /\ err' = Append(err, "Failed to create output directory")
    /\ UNCHANGED <<argv, parsed, out, calls, writeCalls, runs, startFs,
                   initSnapshots>>

\* fs::write("flintx.config.json", config).expect("Failed to write config file")
InitWriteConfig ==
    /\ pc = "init_write"
    /\ writeCalls' = writeCalls + 1
    /\ \E r \in FsWrite(fs, ConfigPath, Template) :
          /\ fs' = r.fs
          /\ IF r.ok
             THEN pc' = "init_report" /\ err' = err
             ELSE /\ pc' = "exit_panic"
                  /\ err' = Append(err, "Failed to write config file")
    /\ UNCHANGED <<argv, parsed, out, calls, mkdirCalls, runs, startFs,
                   initSnapshots>>

\* the five trailing println! calls, then return to main
InitPrintReport ==
    /\ pc = "init_report"
    /\ out' = out \o InitReport
    /\ pc' = "returned"
    /\ initSnapshots' = Append(initSnapshots, fs)
    /\ UNCHANGED <<argv, parsed, err, fs, calls, mkdirCalls, writeCalls,
                   runs, startFs>>

\* main returns after the match: the process exits with status 0.
MainReturn ==
    /\ pc = "returned"
    /\ pc' = "exit_success"
    /\ UNCHANGED <<argv, parsed, out, err, fs, calls, mkdirCalls, writeCalls,
                   runs, startFs, initSnapshots>>

\* The steps of the program itself (its single thread).
Step ==
    \/ PrintBanner
    \/ MainParse
    \/ MainDispatch
    \/ AnalyzeExecute
    \/ ProfileExecute
    \/ OptimizeExecute
    \/ RunExecute
    \/ InitPrintHeader
    \/ InitCreateDir
    \/ InitWriteConfig
    \/ InitPrintReport
    \/ MainReturn

Next == Step \/ Invoke

Spec == Init /\ [][Next]_vars

\* The single thread always gets to run its next statement.
FairSpec == Spec /\ WF_vars(Step)

(***************************************************************************)
(* Properties                                                              *)
(***************************************************************************)
CommandTags == {"Init", "Analyze", "Profile", "Optimize", "Run"}

PrintOnlyTags == {"Analyze", "Profile", "Optimize", "Run"}

Failed(msg) == \E i \in DOMAIN err : err[i] = msg

MkdirFailed == Failed("Failed to create output directory")

WriteFailed == Failed("Failed to write config file")

\* The stub has returned to main (or main has already exited with 0).
StubDone == parsed.tag \in CommandTags /\ pc \in {"returned", "exit_success"}

\* What the stub itself printed: everything after main's banner.
StubOut == SubSeq(out, Len(BannerLines) + 1, Len(out))

\* C1: after a successful init, flintx.config.json holds exactly the five
\* template fields with the template values and flintx_output is a directory.
C1_InitCreatesConfigAndDir ==
    (StubDone /\ parsed.tag = "Init") =>
        LET d == fs[ConfigPath].data IN
        /\ fs[ConfigPath].kind = "file"
        /\ Len(d) = 5
        /\ JsonKeys(d) = {"version", "project", "ai_endpoint", "ollama_model",
                          "output_dir"}
        /\ JsonValues(d, "version") = {"0.1.0"}
        /\ JsonValues(d, "project") = {"flintx-project"}
        /\ JsonValues(d, "ai_endpoint") = {"http://localhost:8000/analyze"}
        /\ JsonValues(d, "ollama_model") = {"mistral"}
        /\ JsonValues(d, "output_dir") = {"./flintx_output"}
        /\ fs[OutputDir].kind = "dir"

C1_Witness ==
    /\ pc = "exit_success"
    /\ parsed.tag = "Init"
    /\ startFs[ConfigPath] = Absent
    /\ startFs[OutputDir] = Absent
    /\ fs[ConfigPath].kind = "file"
    /\ fs[OutputDir].kind = "dir"

\* C2: analyze, profile, optimize and run never fail and never look at the
\* path they are given: whatever the file system holds at that path, the
\* stub prints its fixed lines after the banner and the process exits with
\* success, with nothing on stderr.
C2_StubsIgnoreTargetPath ==
    parsed.tag \in PrintOnlyTags =>
        /\ pc \in {"dispatch", "analyze", "profile", "optimize", "run",
                   "returned", "exit_success"}
        /\ err = <<>>
        /\ pc \in {"returned", "exit_success"} =>
              /\ Len(StubOut) >= 5
              /\ StubOut[1][1] =
                    CASE parsed.tag = "Analyze" -> "[ ANALYZE ] Running static analysis..."
                      [] parsed.tag = "Profile" -> "[ PROFILE ] Running runtime profiler..."
                      [] parsed.tag = "Optimize" -> "[ OPTIMIZE ] Querying AI optimization layer..."
                      [] parsed.tag = "Run" -> "[ RUN ] Executing full Flint-X pipeline..."
              /\ StubOut[2] =
                    CASE parsed.tag # "Optimize" -> <<"  Target: ", argv.val>>
                      [] argv.val # None -> <<"  Input file: ", argv.val>>
                      [] OTHER -> <<"  Input: ", "auto (from last run)">>

C2_Witness ==
    /\ pc = "exit_success"
    /\ parsed.tag = "Analyze"
    /\ argv.val = OtherPath
    /\ fs[OtherPath] = Absent
    /\ StubOut = AnalyzeLines(OtherPath)

\* C3: a failed create_dir_all or write in init aborts the process on the
\* spot: the process is in the aborted state, it has printed nothing after
\* init's header line, and after a failed create_dir_all no write was tried.
C3_InitFailureIsFatal ==
    (MkdirFailed \/ WriteFailed) =>
        /\ pc = "exit_panic"
        /\ out = BannerLines \o InitHeader
        /\ \A i \in DOMAIN out :
              out[i][1] \notin {"  ok Created flintx.config.json",
                                "  ok Created flintx_output/ directory",
                                "  Flint-X project ready."}
        /\ MkdirFailed => (writeCalls = 0 /\ ~WriteFailed)

C3_Witness ==
    /\ pc = "exit_panic"
    /\ MkdirFailed
    /\ startFs[OutputDir].kind = "file"
    /\ writeCalls = 0

\* An init that failed in its directory / file creation.
InitFsFailure ==
    /\ argv.cmd = "init"
    /\ mkdirCalls + writeCalls > 0
    /\ MkdirFailed \/ WriteFailed

\* A subcommand with the option it declares either present or missing.
DeclaredArgv ==
    /\ argv.cmd \in SubcommandNames
    /\ argv.opt \in {None, Commands[argv.cmd].opt}

\* C4 as stated: with any combination of present or missing arguments, the
\* process reaches a failure state only through a file-system failure
\* during init.
C4_OnlyInitFails ==
    (DeclaredArgv /\ pc \in {"exit_usage", "exit_panic"}) => InitFsFailure

\* Command lines the argument parser rejects.
RejectedArgv ==
    \/ argv.cmd \notin SubcommandNames \cup {"--help"}
    \/ argv.cmd \in {"analyze", "profile", "run"} /\ argv.opt # "--target"
    \/ argv.cmd = "optimize" /\ argv.opt = "--target"
    \/ argv.cmd = "init" /\ argv.opt # None

\* C4 (amended): the program fails in exactly two ways: the argument parser
\* rejects the command line (before any stub runs), or init fails in its
\* directory / file creation.  A command line that parses and does not fail
\* there never reaches a failure state.
C4_FailsOnlyInParseOrInit ==
    /\ pc = "exit_usage" => (RejectedArgv /\ calls = <<>>)
    /\ pc = "exit_panic" => InitFsFailure
    /\ (~RejectedArgv /\ ~InitFsFailure) => pc \notin {"exit_usage", "exit_panic"}

C4_Witness ==
    /\ pc = "exit_usage"
    /\ argv.cmd = "analyze"
    /\ argv.opt = None
    /\ calls = <<>>

\* C5 as stated: a stub that ran to its end printed between 3 and 6 lines
\* and entered no other stub.
C5_ThreeToSixLines ==
    StubDone =>
        /\ Len(StubOut) >= 3
        /\ Len(StubOut) <= 6
        /\ Len(calls) = 1

\* C5 (amended): init prints 6 lines, analyze, profile and optimize print 5
\* each, run prints 10; none enters another stub.
C5_LinesPerStub ==
    StubDone =>
        /\ Len(StubOut) = CASE parsed.tag = "Init" -> 6
                            [] parsed.tag = "Run" -> 10
                            [] OTHER -> 5
        /\ Len(calls) = 1

C5_Witness ==
    /\ pc = "exit_success"
    /\ parsed.tag = "Run"
    /\ Len(StubOut) = 10
    /\ calls = << <<"run", argv.val>> >>

\* C6: a process whose arguments parse enters exactly one stub, once: the
\* one named on the command line, with the option's value as given.
C6_DispatchOneToOne ==
    /\ Len(calls) <= 1
    /\ calls # <<>> =>
          /\ argv.cmd \in SubcommandNames
          /\ calls[1] = <<argv.cmd, argv.val>>
          /\ pc \in {argv.cmd, "init_mkdir", "init_write", "init_report",
                     "returned", "exit_success", "exit_panic"}
          /\ pc \in {"init_mkdir", "init_write", "init_report", "exit_panic"}
                => argv.cmd = "init"
    /\ StubDone => Len(calls) = 1
    /\ (StubDone /\ argv.cmd = "run") => StubOut[1] = <<"[ RUN ] Executing full Flint-X pipeline...">>

C6_Witness ==
    /\ pc = "exit_success"
    /\ argv.cmd = "run"
    /\ argv.val = ConfigPath
    /\ calls = << <<"run", ConfigPath>> >>

\* C7: only init changes the file system, and init changes only
\* flintx.config.json and flintx_output.
C7_OnlyInitChangesFs ==
    [][fs' # fs =>
          /\ argv.cmd = "init"
          /\ pc \in {"init_mkdir", "init_write"}
          /\ \A p \in Paths \ {ConfigPath, OutputDir} : fs'[p] = fs[p]]_vars

C7_Witness ==
    /\ pc = "exit_success"
    /\ parsed.tag = "Profile"
    /\ fs = startFs
    /\ fs[ConfigPath] = Absent
    /\ fs[OutputDir] = Absent

\* C8: every process reaches a terminal state, and makes at most one
\* create_dir_all call and at most one write call on the way.
C8_Terminates ==
    /\ [](pc \notin Terminal => <>(pc \in Terminal))
    /\ [](mkdirCalls <= 1 /\ writeCalls <= 1)

C8_Witness ==
    /\ pc = "exit_success"
    /\ parsed.tag = "Init"
    /\ mkdirCalls = 1
    /\ writeCalls = 1
    /\ runs = MaxRuns

\* C9: init writes the config file only after create_dir_all succeeded and
\* undoes nothing: a failed create_dir_all leaves flintx.config.json as it
\* was, a failed write leaves flintx_output in place, and once the write has
\* been tried flintx_output is a directory.
C9_DirBeforeConfig ==
    /\ writeCalls > 0 => (mkdirCalls = 1 /\ ~MkdirFailed /\ fs[OutputDir] = Dir)
    /\ MkdirFailed => (writeCalls = 0 /\ fs[ConfigPath] = startFs[ConfigPath])
    /\ WriteFailed => (pc = "exit_panic" /\ fs[OutputDir] = Dir)
    /\ (argv.cmd = "init" /\ fs[ConfigPath] # startFs[ConfigPath])
          => fs[OutputDir] = Dir

C9_Witness ==
    /\ pc = "exit_panic"
    /\ WriteFailed
    /\ startFs[OutputDir] = Absent
    /\ fs[OutputDir] = Dir
    /\ fs[ConfigPath] # File(Template)

\* C10: init overwrites and is idempotent: an existing flintx_output
\* directory never makes it fail, a successful init leaves the template in
\* flintx.config.json whatever was there, and every successful init leaves
\* the same file system as the successful init before it.
C10_InitIdempotent ==
    /\ MkdirFailed => startFs[OutputDir] # Dir
    /\ (StubDone /\ parsed.tag = "Init") => fs[ConfigPath] = File(Template)
    /\ \A i, j \in DOMAIN initSnapshots : initSnapshots[i] = initSnapshots[j]
    /\ (StubDone /\ parsed.tag = "Init" /\ Len(initSnapshots) >= 2) =>
          /\ initSnapshots[Len(initSnapshots)] = fs
          /\ startFs[ConfigPath] = File(Template) => fs = startFs

C10_Witness ==
    /\ pc = "exit_success"
    /\ parsed.tag = "Init"
    /\ Len(initSnapshots) = 2
    /\ initSnapshots[1][ConfigPath] = File(Template)
    /\ initSnapshots[2] = initSnapshots[1]
    /\ startFs = fs

====
